---------------------------- MODULE Spec2Model ----------------------------
(***************************************************************************)
(* Model of src/src/attribute_major_axis_local_mp.py: the per-row worker   *)
(* fn_populate_sta_ground_deck_elev (hull centering, ground-raster         *)
(* provider selection, dense sampling, elevation lookup, spike repair,     *)
(* smoothing, serialization) and the worker pool of fn_attribute_mjr_axis. *)
(*                                                                         *)
(* Numbers.  Coordinates, lengths and stations are integers counted in     *)
(* sub-units: Unit sub-units make one unit of the coordinate reference     *)
(* system.  Unit is a multiple of 2 * lcm(1..6), so that every point the   *)
(* sampler interpolates on a segment whose length is a multiple of half a  *)
(* unit (up to 6.5 units) is an exact integer; floating-point rounding is  *)
(* not modelled.  Elevations are integers counted in the same sub-units;   *)
(* a missing value (numpy NaN) is the empty tuple and a present value v is *)
(* the one-element tuple <<v>>.                                            *)
(***************************************************************************)
EXTENDS Integers, Sequences, FiniteSets, TLC

VARIABLES
    rows,       \* list_of_single_row_gdfs: row id -> the single-row input record
    pc,         \* row id -> position of the worker call made for that row
    wk,         \* row id -> the locals of that worker call
    dispatched, \* row id -> how many times the pool handed the row to a worker
    results,    \* row id -> what the worker call returned (as imap receives it)
    collected,  \* how many results the parent has taken from pool.imap, in order
    list_gdfs,  \* the parent's list_gdfs: row ids in list order, 0 for None
    opc,        \* position of fn_attribute_mjr_axis
    calls,      \* the downstream writes and sub-processes run so far, in order
    disk,       \* the files that exist, of those fn_fetch_hand_rating_curves reads and writes
    printed     \* the file names of the "Input file not found" messages, in order

vars == <<rows, pc, wk, dispatched, results, collected, list_gdfs, opc, calls,
          disk, printed>>

-----------------------------------------------------------------------------
(* Units and small helpers *)

Unit == 2 * 60

Abs(a) == IF a < 0 THEN -a ELSE a

Max2(a, b) == IF a >= b THEN a ELSE b

NaN == <<>>

Some(v) == <<v>>

IsNaN(e) == e = NaN

\* Python's != on floats: NaN differs from everything, itself included.
PyNeq(a, b) == IsNaN(a) \/ IsNaN(b) \/ a # b

Last(s) == s[Len(s)]

-----------------------------------------------------------------------------
(* Bounds of the inputs *)

MaxSegs == 2        \* a polyline has at most this many segments

MaxHalf == 5        \* a segment is at most this many half units long

MaxDiff == 3        \* area differences of a valid split are 1..MaxDiff

MaxTiles == 2       \* the spatial index returns at most this many tiles

NumRows == 2        \* rows handed to the pool

NumProcs == 2       \* worker processes of the pool (mp.cpu_count() - 1)

MaxCells == 4       \* cells of the rasters the profile inputs are drawn over
MaxStations == 5    \* stations of the profiles the spike repair is run over

-----------------------------------------------------------------------------
(* Distance/geometry primitives *)

\* math.sqrt of a non-negative integer known to lie between lo and hi; exact
\* whenever the argument is a perfect square (every axis-parallel distance).
SqrtIn(sq, lo, hi) == CHOOSE r \in lo..hi : r * r <= sq /\ sq < (r + 1) * (r + 1)

fn_distance(x1, x2, y1, y2) ==
    LET sq1 == (x1 - x2) * (x1 - x2)
        sq2 == (y1 - y2) * (y1 - y2)
    IN  SqrtIn(sq1 + sq2, Max2(Abs(x1 - x2), Abs(y1 - y2)), Abs(x1 - x2) + Abs(y1 - y2))

\* shapely Point.distance(Point)
PointDistance(p, q) == fn_distance(p[1], q[1], p[2], q[2])


-----------------------------------------------------------------------------
(* Polylines: a sequence of at least two vertices <<x, y>>.  The inputs are  *)
(* the polylines that start at the origin and whose segments run east or     *)
(* north, each a multiple of half a unit long (a segment of length zero is   *)
(* two equal consecutive vertices).                                          *)

HalfUnit == Unit \div 2

Dirs == {"E", "N"}

Step(p, dir, len) == IF dir = "E" THEN <<p[1] + len, p[2]>> ELSE <<p[1], p[2] + len>>

RECURSIVE LineOf(_)
LineOf(moves) ==
    IF Len(moves) = 0
    THEN << <<0, 0>> >>
    ELSE LET head == LineOf(SubSeq(moves, 1, Len(moves) - 1))
             m    == moves[Len(moves)]
         IN  Append(head, Step(Last(head), m[1], m[2] * HalfUnit))

Lines == UNION { { LineOf(ms) : ms \in [1..n -> Dirs \X (0..MaxHalf)] } : n \in 1..MaxSegs }

\* LineString.length
RECURSIVE LineLength(_)
LineLength(line) ==
    IF Len(line) < 2
    THEN 0
    ELSE LineLength(SubSeq(line, 1, Len(line) - 1))
         + PointDistance(line[Len(line) - 1], line[Len(line)])

\* A straight east-running line of the given length (in half units) at height y.
StraightLine(halves, y) == << <<0, y>>, <<halves * HalfUnit, y>> >>

-----------------------------------------------------------------------------
(* Rasters: one row of cells; xs are the x coordinates of the cell centres, *)
(* ascending, vals the cell values (NaN where the raster has no data),      *)
(* size the number of values a point lookup returns (the band count left    *)
(* after squeeze).                                                          *)

Raster(xs, vals) == [xs |-> xs, vals |-> vals, size |-> 1]

\* DataArray.sel(x=, y=, method="nearest").values: the value of the nearest
\* cell, the larger index on a tie; the single row is nearest in y to any y.
Nearest(xs, x) ==
    CHOOSE k \in 1..Len(xs) :
        \A m \in 1..Len(xs) :
            \/ Abs(xs[k] - x) < Abs(xs[m] - x)
            \/ Abs(xs[k] - x) = Abs(xs[m] - x) /\ k >= m

Sel(raster, x, y) == raster.vals[Nearest(raster.xs, x)]

\* Lines 427-433 (and 456-462): the value is stored only when size == 1.
Lookup(raster, x, y) == IF raster.size = 1 THEN Sel(raster, x, y) ELSE NaN

-----------------------------------------------------------------------------
(* Dense line sampler (fn_get_profile_gdf_on_major_axis_from_dems)          *)

flt_xs_sample_interval == 1

\* A variant that counts half intervals.
n_points_half_interval(len_current_edge) ==
    (2 * len_current_edge) \div (flt_xs_sample_interval * Unit)

\* Line 400: n_points = int(len_current_edge // flt_xs_sample_interval)
n_points_of(len_current_edge) == len_current_edge \div (flt_xs_sample_interval * Unit)

\* A variant whose loop stops one point early (j = 1 .. n_points - 2).
EdgeStartAndInteriorShort(start_coords, end_coords) ==
    LET len_current_edge == fn_distance(start_coords[1], end_coords[1],
                                        start_coords[2], end_coords[2])
        n_points == len_current_edge \div (flt_xs_sample_interval * Unit)
        x_dist   == end_coords[1] - start_coords[1]
        y_dist   == end_coords[2] - start_coords[2]
    IN  IF n_points > 0
        THEN << start_coords >> \o
             [j \in 1..(n_points - 2) |->
                 << start_coords[1] + (x_dist * j) \div n_points,
                    start_coords[2] + (y_dist * j) \div n_points >>]
        ELSE << start_coords >>

\* Lines 394-408: the start of the edge and the points j = 1 .. n_points - 1.
EdgeStartAndInterior(start_coords, end_coords) ==
    LET len_current_edge == fn_distance(start_coords[1], end_coords[1],
                                        start_coords[2], end_coords[2])
        n_points == n_points_of(len_current_edge)
        x_dist   == end_coords[1] - start_coords[1]
        y_dist   == end_coords[2] - start_coords[2]
    IN  IF n_points > 0
        THEN << start_coords >> \o
             [j \in 1..(n_points - 1) |->
                 << start_coords[1] + (x_dist * j) \div n_points,
                    start_coords[2] + (y_dist * j) \div n_points >>]
        ELSE << start_coords >>

\* Lines 410, 436-440: the end of the line is added on the last edge, and only
\* in the branch taken when total_length is not 0.
AppendsEnd(i, n_edges, total_length) == total_length # 0 /\ i = n_edges

\* The points of edge i (1-based) as the loop body builds them.
EdgePoints(line, i, total_length) ==
    LET body == EdgeStartAndInterior(line[i], line[i + 1])
    IN  IF AppendsEnd(i, Len(line) - 1, total_length)
        THEN Append(body, line[i + 1])
        ELSE body

\* Lines 412-433 / 442-462: one row per point; h_distance is the distance from
\* the first point of the edge, plus base.
EdgeRows(pts, base, ground, deck) ==
    [k \in 1..Len(pts) |->
        [x          |-> pts[k][1],
         y          |-> pts[k][2],
         h_distance |-> PointDistance(pts[1], pts[k]) + base,
         elev_grnd  |-> Lookup(ground, pts[k][1], pts[k][2]),
         elev_deck  |-> Lookup(deck, pts[k][1], pts[k][2])]]

\* Lines 410-469: the first-edge branch builds gdf anew, the other branch
\* appends to it.
Merged(gdf, pts, total_length, ground, deck) ==
    IF total_length = 0
    THEN EdgeRows(pts, 0, ground, deck)
    ELSE gdf \o EdgeRows(pts, total_length, ground, deck)


-----------------------------------------------------------------------------
(* Hull-centering optimizer (fn_center_mjr_axis_on_hull)                    *)
(*                                                                         *)
(* The hull polygon enters through what shapely's split returns for each   *)
(* candidate offset line: split raises, or it returns n pieces whose first *)
(* two differ in area by diff.  A row's hull gives the outcome of the      *)
(* candidates in ProbeIdx on each side; at every other candidate the       *)
(* offset line does not cut the hull (one piece).                          *)

num_iterations == 100

ProbeIdx == {0, 1, num_iterations - 1}

Raises == [kind |-> "raise", n |-> 0, diff |-> 0]

Pieces(n, d) == [kind |-> "pieces", n |-> n, diff |-> d]

SplitOutcomes == {Raises, Pieces(1, 0)} \cup { Pieces(2, d) : d \in 1..MaxDiff }

Sides == {"left", "right"}

\* An offset of 0 is the line itself on either side, so both sides see the
\* same split there.
Hulls == { h \in [Sides -> [ProbeIdx -> SplitOutcomes]] : h["left"][0] = h["right"][0] }

\* split(shp_polygon, shp_line.parallel_offset(k * step, side))
SplitAt(hull, side, k) == IF k \in ProbeIdx THEN hull[side][k] ELSE Pieces(1, 0)

\* A candidate that splits the hull into exactly two pieces.
ValidAt(hull, side, k) ==
    SplitAt(hull, side, k).kind = "pieces" /\ SplitAt(hull, side, k).n = 2

Inf == <<>>

\* flt_difference < flt_best_difference, the latter starting at float('inf')
LessThanBest(d, best) == best = Inf \/ d < best[1]

\* A variant whose step is the whole width.
StepOfWhole(flt_avg_width) == flt_avg_width

\* Line 502: step = (final_value - initial_value) / num_iterations
StepOf(flt_avg_width) == flt_avg_width \div num_iterations

\* The locals the two loops share: split_polygons (unbound until a split has
\* returned), flt_best_difference, and whether an error has escaped.
ScanStart == [bound |-> FALSE, split_polygons |-> Pieces(0, 0),
              flt_best_difference |-> Inf, best_offset |-> 0, raised |-> FALSE]

\* Lines 509-512 (537-540): a split that raises leaves split_polygons as it was.
AfterSplit(acc, outcome) ==
    IF outcome.kind = "raise"
    THEN acc
    ELSE [acc EXCEPT !.bound = TRUE, !.split_polygons = outcome]

\* A variant that records the offset with the opposite sign.
AfterCompareMirrored(acc, current_value) ==
    IF ~acc.bound
    THEN [acc EXCEPT !.raised = TRUE]
    ELSE IF acc.split_polygons.n = 2
              /\ LessThanBest(acc.split_polygons.diff, acc.flt_best_difference)
         THEN [acc EXCEPT !.flt_best_difference = Some(acc.split_polygons.diff),
                          !.best_offset = 0 - current_value]
         ELSE acc

\* Lines 514-523 (542-551): reading split_polygons while it is unbound raises
\* UnboundLocalError, which nothing catches.
AfterCompare(acc, current_value) ==
    IF ~acc.bound
    THEN [acc EXCEPT !.raised = TRUE]
    ELSE IF acc.split_polygons.n = 2
              /\ LessThanBest(acc.split_polygons.diff, acc.flt_best_difference)
         THEN [acc EXCEPT !.flt_best_difference = Some(acc.split_polygons.diff),
                          !.best_offset = current_value]
         ELSE acc

\* Lines 505-524 (533-552): the candidates k, k+1, .. num_iterations - 1.
RECURSIVE ScanFrom(_, _, _, _, _)
ScanFrom(hull, side, step, k, acc) ==
    IF k >= num_iterations \/ acc.raised
    THEN acc
    ELSE ScanFrom(hull, side, step, k + 1,
                  AfterCompare(AfterSplit(acc, SplitAt(hull, side, k)), k * step))

\* A variant that takes the left side on a tie.
SideOfLeftOnTie(flt_best_offset_left, flt_best_offset_right) ==
    IF flt_best_offset_left >= flt_best_offset_right THEN "left" ELSE "right"

\* Lines 555-560: the side and magnitude of the final offset.
SideOf(flt_best_offset_left, flt_best_offset_right) ==
    IF flt_best_offset_right >= flt_best_offset_left THEN "right" ELSE "left"

\* LineString.parallel_offset of a straight line: the line moved by distance
\* to the left (right) of its direction of travel.
parallel_offset(line, distance, side) ==
    LET dx == line[Len(line)][1] - line[1][1]
        dy == line[Len(line)][2] - line[1][2]
        sx == IF dx > 0 THEN 1 ELSE IF dx < 0 THEN -1 ELSE 0
        sy == IF dy > 0 THEN 1 ELSE IF dy < 0 THEN -1 ELSE 0
        sg == IF side = "left" THEN 1 ELSE -1
    IN  [k \in 1..Len(line) |->
            << line[k][1] - sg * sy * distance, line[k][2] + sg * sx * distance >>]

\* Line 565: gdf_singlerow.iloc[0]['geometry'] = shp_line_offset assigns into
\* the row copy that iloc[0] returns, so the record keeps its geometry (the
\* source says so itself on line 566).
GeometryAfterCentering(geometry, shp_line_offset) == geometry

\* fn_center_mjr_axis_on_hull: the locals at the return, and the returned
\* record's geometry.
fn_center_mjr_axis_on_hull(row) ==
    LET step  == StepOf(row.avg_width)
        left  == ScanFrom(row.hull, "left", step, 0, ScanStart)
        right == ScanFrom(row.hull, "right", step, 0,
                          [left EXCEPT !.best_offset = 0])
        str_side      == SideOf(left.best_offset, right.best_offset)
        flt_max_value == IF str_side = "right" THEN right.best_offset
                                               ELSE left.best_offset
        shp_line_offset == parallel_offset(row.geometry, flt_max_value, str_side)
    IN  [raised                |-> left.raised \/ right.raised,
         flt_best_offset_left  |-> left.best_offset,
         flt_best_offset_right |-> right.best_offset,
         flt_best_difference   |-> right.flt_best_difference,
         str_side              |-> str_side,
         flt_max_value         |-> flt_max_value,
         shp_line_offset       |-> shp_line_offset,
         geometry              |-> GeometryAfterCentering(row.geometry, shp_line_offset)]


-----------------------------------------------------------------------------
(* Ground-raster providers                                                  *)
(*                                                                         *)
(* A configuration string is a tuple of characters.  What the outside      *)
(* world answers a provider (the web service, the file system, the tiles   *)
(* of the spatial index) is chosen by the environment when the provider    *)
(* is called.                                                              *)

StrNone == <<"N", "o", "n", "e">>

StrTif == <<"t", "i", "f">>

\* Python's s[:-3]: s without its last three characters.
PyDropLast3(s) == SubSeq(s, 1, Len(s) - 3)

\* Python's s[-3:]: the last three characters of s.
PyLast3(s) == SubSeq(s, Max2(1, Len(s) - 2), Len(s))

\* Line 632: str_input_cog_ground_dem[:-3] == "tif"
LooksLikeTif(s) == PyDropLast3(s) = StrTif

\* Lines 626-643: which provider the configuration string selects.
ProviderFor(str_input_cog_ground_dem) ==
    IF str_input_cog_ground_dem = StrNone
    THEN "fn_get_ground_dem_from_usgs_service"
    ELSE IF LooksLikeTif(str_input_cog_ground_dem)
         THEN "fn_get_ground_dem_from_provided_cog"
         ELSE "fn_get_ground_dem_rtree"

\* The values a ground or deck raster holds: half units, 1 .. 2 units.
GroundLevel == 2 * HalfUnit

DeckLevel == 4 * HalfUnit

CellCentres == [k \in 1..4 |-> (k - 1) * Unit]

FlatGround == Raster(CellCentres, [k \in 1..4 |-> Some(GroundLevel)])

NoRaster == [xs |-> <<>>, vals |-> <<>>, size |-> 0]

TileKinds == {"ok", "corrupt", "no_crs"}

TileLists == UNION { [1..n -> TileKinds] : n \in 0..MaxTiles }

\* What the world can answer each provider.
\*   usgs service: the request fails (urlopen raises), the response is not a
\*     readable raster (MemoryFile.open raises), or a raster comes back;
\*   provided cog: the file cannot be opened (open_rasterio raises), or a raster;
\*   rtree: the tiles the index returns for the buffered line, each readable,
\*     corrupt (RasterioIOError) or without a reference system (reproject
\*     raises, line 320).
Answers(provider) ==
    CASE provider = "fn_get_ground_dem_from_usgs_service" ->
            { [kind |-> k, tiles |-> <<>>] : k \in {"unreachable", "unreadable", "raster"} }
      [] provider = "fn_get_ground_dem_from_provided_cog" ->
            { [kind |-> k, tiles |-> <<>>] : k \in {"unreadable", "raster"} }
      [] provider = "fn_get_ground_dem_rtree" ->
            { [kind |-> "tiles", tiles |-> t] : t \in TileLists }

\* Lines 312-329: the tiles opened, up to the first error that is not caught.
RECURSIVE OpenTiles(_, _)
OpenTiles(tiles, acc) ==
    IF Len(tiles) = 0 \/ acc.raised
    THEN acc
    ELSE OpenTiles(Tail(tiles),
                   CASE Head(tiles) = "ok"      -> [acc EXCEPT !.opened = @ + 1]
                     [] Head(tiles) = "corrupt" -> acc
                     [] Head(tiles) = "no_crs"  -> [acc EXCEPT !.raised = TRUE])

\* A variant that gives up as soon as one tile is corrupt.
fn_get_ground_dem_rtree_strict(tiles, surface) ==
    IF \E k \in 1..Len(tiles) : tiles[k] = "corrupt"
    THEN [outcome |-> "none", raster |-> NoRaster]
    ELSE IF \E k \in 1..Len(tiles) : tiles[k] = "no_crs"
         THEN [outcome |-> "raise", raster |-> NoRaster]
         ELSE IF Len(tiles) > 0
              THEN [outcome |-> "raster", raster |-> surface]
              ELSE [outcome |-> "none", raster |-> NoRaster]

\* fn_get_ground_dem_rtree (lines 292-346); surface is the ground the readable
\* tiles hold over the buffered line.
fn_get_ground_dem_rtree(tiles, surface) ==
    LET list_xar_dem == OpenTiles(tiles, [opened |-> 0, raised |-> FALSE])
    IN  IF list_xar_dem.raised
        THEN [outcome |-> "raise", raster |-> NoRaster]
        ELSE IF Len(tiles) > 0 /\ list_xar_dem.opened > 0
             THEN [outcome |-> "raster", raster |-> surface]
             ELSE [outcome |-> "none", raster |-> NoRaster]

\* fn_get_ground_dem_from_usgs_service (197-255) and
\* fn_get_ground_dem_from_provided_cog (260-287): no error is caught, and
\* neither returns None; surface is the ground the service or the file holds.
fn_get_ground_dem_direct(answer, surface) ==
    IF answer.kind = "raster"
    THEN [outcome |-> "raster", raster |-> surface]
    ELSE [outcome |-> "raise", raster |-> NoRaster]

\* The call of lines 626-643: what the selected provider returns or raises.
GroundDem(provider, answer, surface) ==
    IF provider = "fn_get_ground_dem_rtree"
    THEN fn_get_ground_dem_rtree(answer.tiles, surface)
    ELSE fn_get_ground_dem_direct(answer, surface)

\* The fetch failed: the service was unreachable or its response unreadable,
\* the file could not be opened, or no tile of the index could be used.
FetchFailed(answer) ==
    \/ answer.kind \in {"unreachable", "unreadable"}
    \/ answer.kind = "tiles" /\ \A k \in 1..Len(answer.tiles) : answer.tiles[k] # "ok"


-----------------------------------------------------------------------------
(* Spike repair filter (fn_fix_ground_spikes).  Row labels are 1-based here *)
(* (the source's labels after reset_index are 0-based).                     *)

\* Line 364: the hard coded 0.5 elevation units.
SpikeThreshold == HalfUnit

\* abs(a - b) on floats: NaN when either is NaN.
AbsDiff(a, b) == IF IsNaN(a) \/ IsNaN(b) THEN NaN ELSE Some(Abs(a[1] - b[1]))

\* Python's max(a, b): b when b > a, else a (a comparison with NaN is false).
PyMax(a, b) == IF ~IsNaN(a) /\ ~IsNaN(b) /\ b[1] > a[1] THEN b ELSE a

\* a < t on floats.
PyLess(a, t) == ~IsNaN(a) /\ a[1] < t

\* Lines 356-357: the labels of the rows whose ground and deck differ.
IndVals(gdf) == { k \in 1..Len(gdf) : PyNeq(gdf[k].elev_grnd, gdf[k].elev_deck) }

SetMin(S) == CHOOSE m \in S : \A o \in S : m <= o

SetMax(S) == CHOOSE m \in S : \A o \in S : m >= o

\* Line 359: range(first, last) without the labels of IndVals.
Assess(gdf) == (SetMin(IndVals(gdf))..(SetMax(IndVals(gdf)) - 1)) \ IndVals(gdf)

\* A variant that flags a label next to a flagged one, or one whose deck
\* differs by more than the threshold from both neighbours.
AssessOneBoth(deck, assess, ind) ==
    LET a == AbsDiff(deck[ind], deck[ind - 1])
        b == AbsDiff(deck[ind], deck[ind + 1])
    IN  IF \/ (ind - 1) \in assess /\ IsNaN(deck[ind - 1])
           \/ /\ ~IsNaN(a) /\ a[1] > SpikeThreshold
              /\ ~IsNaN(b) /\ b[1] > SpikeThreshold
        THEN [deck EXCEPT ![ind] = NaN]
        ELSE deck

\* Lines 362-369 for one label: the deck column after the label is assessed.
AssessOne(deck, assess, ind) ==
    IF (ind - 1) \notin assess \/ (ind + 1) \notin assess
    THEN IF PyLess(PyMax(AbsDiff(deck[ind], deck[ind - 1]),
                         AbsDiff(deck[ind], deck[ind + 1])), SpikeThreshold)
         THEN deck
         ELSE [deck EXCEPT ![ind] = NaN]
    ELSE IF IsNaN(deck[ind - 1])
         THEN [deck EXCEPT ![ind] = NaN]
         ELSE deck

\* Lines 361-369: the labels of assess in ascending order, from ind on.
RECURSIVE AssessFrom(_, _, _, _)
AssessFrom(deck, assess, ind, last) ==
    IF ind > last
    THEN deck
    ELSE AssessFrom(IF ind \in assess THEN AssessOne(deck, assess, ind) ELSE deck,
                    assess, ind + 1, last)

\* A variant that repeats the last valid value (a pad fill).
InterpolatePad(col) ==
    [k \in 1..Len(col) |->
        IF ~IsNaN(col[k])
        THEN col[k]
        ELSE LET before == { p \in 1..(k - 1) : ~IsNaN(col[p]) }
             IN  IF before = {} THEN NaN ELSE col[SetMax(before)]]

\* DataFrame.interpolate() on one column: linear by position between the
\* nearest valid neighbours, the last valid value after it, NaN before the first.
Interpolate(col) ==
    [k \in 1..Len(col) |->
        IF ~IsNaN(col[k])
        THEN col[k]
        ELSE LET before == { p \in 1..(k - 1) : ~IsNaN(col[p]) }
                 after  == { q \in (k + 1)..Len(col) : ~IsNaN(col[q]) }
             IN  IF before = {}
                 THEN NaN
                 ELSE IF after = {}
                      THEN col[SetMax(before)]
                      ELSE LET p == SetMax(before)
                               q == SetMin(after)
                           IN  Some(col[p][1]
                                    + ((col[q][1] - col[p][1]) * (k - p)) \div (q - p))]

\* Line 359 raises IndexError when no row has ground and deck differing.
FixRaises(gdf) == IndVals(gdf) = {}

\* A variant that copies every interpolated column back, not the deck only.
fn_fix_ground_spikes_all_columns(gdf) ==
    LET deck   == [k \in 1..Len(gdf) |-> gdf[k].elev_deck]
        marked == AssessFrom(deck, Assess(gdf), 1, Len(gdf))
        fixed  == Interpolate(marked)
        ground == Interpolate([k \in 1..Len(gdf) |-> gdf[k].elev_grnd])
    IN  [k \in 1..Len(gdf) |->
            [gdf[k] EXCEPT !.elev_deck = fixed[k], !.elev_grnd = ground[k]]]

\* fn_fix_ground_spikes (lines 351-376), when it does not raise.
fn_fix_ground_spikes(gdf) ==
    LET deck   == [k \in 1..Len(gdf) |-> gdf[k].elev_deck]
        marked == AssessFrom(deck, Assess(gdf), 1, Len(gdf))
        fixed  == Interpolate(marked)
    IN  [k \in 1..Len(gdf) |-> [gdf[k] EXCEPT !.elev_deck = fixed[k]]]

-----------------------------------------------------------------------------
(* Profile smoother (fn_get_smooth_deck_and_ground_profile)                 *)

\* Line 144: gdf.dropna()
DropNa(gdf) ==
    LET Complete(row) == ~IsNaN(row.elev_grnd) /\ ~IsNaN(row.elev_deck)
    IN  SelectSeq(gdf, Complete)

\* Lines 151-155: the window of the filter.
WindowOf(n) == IF (n \div 4) % 2 = 0 THEN (n \div 4) + 1 ELSE n \div 4

\* Lines 157-160: savgol_filter(y_deck, int_window, 2) raises when the
\* polynomial order 2 is not below the window or the window exceeds the data,
\* and then the raw values are used.  A window of 3 fits a parabola through
\* three points, which returns the values unchanged.
SavgolRaises(n, int_window) == int_window <= 2 \/ int_window > n

\* A series of one repeated value: a least-squares polynomial fit over any
\* window returns it unchanged.
IsConstant(y_deck) == \A i, j \in 1..Len(y_deck) : y_deck[i] = y_deck[j]

\* A variant without the try/except around the filter.
EscapesUncaught(raised) == raised

\* Lines 157-160: the bare except catches whatever savgol_filter raises.
Escapes(raised) == FALSE

w_deck_of(y_deck) ==
    LET int_window == WindowOf(Len(y_deck))
    IN  CASE SavgolRaises(Len(y_deck), int_window) -> y_deck
          [] int_window = 3 -> y_deck
          [] IsConstant(y_deck) -> y_deck

\* An error leaves fn_get_smooth_deck_and_ground_profile.
SmoothRaises(gdf) ==
    Escapes(SavgolRaises(Len(DropNa(gdf)), WindowOf(Len(DropNa(gdf)))))

\* A variant that takes the deck wherever there is one.
RowDeckFirst(a, b) == IF IsNaN(b) THEN a ELSE b

\* max(axis=1) of pandas: NaN values are skipped.
RowMax(a, b) ==
    IF IsNaN(a) THEN b ELSE IF IsNaN(b) THEN a ELSE Some(Max2(a[1], b[1]))

\* A variant that keeps only the stations found on both sides (an inner
\* merge).
InnerMerge(df_ground, df_deck) ==
    LET Matches(g) == SelectSeq(df_deck, LAMBDA d : d.sta = g.sta)
        RowsFor(g) ==
            [m \in 1..Len(Matches(g)) |->
                [sta |-> g.sta, ground_elev |-> g.ground_elev,
                 deck_elev |-> Matches(g)[m].deck_elev]]
        F[k \in 0..Len(df_ground)] ==
            IF k = 0 THEN <<>> ELSE F[k - 1] \o RowsFor(df_ground[k])
    IN  F[Len(df_ground)]

\* Lines 180-187: df_ground left-merged with df_deck on sta, then the max.
LeftMerge(df_ground, df_deck) ==
    LET Matches(g) == SelectSeq(df_deck, LAMBDA d : d.sta = g.sta)
        RowsFor(g) ==
            IF Len(Matches(g)) = 0
            THEN << [sta |-> g.sta, ground_elev |-> g.ground_elev, deck_elev |-> NaN] >>
            ELSE [m \in 1..Len(Matches(g)) |->
                    [sta |-> g.sta, ground_elev |-> g.ground_elev,
                     deck_elev |-> Matches(g)[m].deck_elev]]
        F[k \in 0..Len(df_ground)] ==
            IF k = 0 THEN <<>> ELSE F[k - 1] \o RowsFor(df_ground[k])
    IN  F[Len(df_ground)]

fn_get_smooth_deck_and_ground_profile(gdf) ==
    LET gdf_other == DropNa(gdf)
        y_deck    == [k \in 1..Len(gdf_other) |-> gdf_other[k].elev_deck]
        w_deck    == w_deck_of(y_deck)
        df_ground == [k \in 1..Len(gdf) |->
                         [sta |-> gdf[k].h_distance, ground_elev |-> gdf[k].elev_grnd]]
        df_deck   == [k \in 1..Len(gdf_other) |->
                         [sta |-> gdf_other[k].h_distance, deck_elev |-> w_deck[k]]]
        df_xs     == LeftMerge(df_ground, df_deck)
    IN  [k \in 1..Len(df_xs) |->
            [sta |-> df_xs[k].sta, ground_elev |-> df_xs[k].ground_elev,
             deck_elev |-> df_xs[k].deck_elev,
             max_elev_road_deck |-> RowMax(df_xs[k].ground_elev, df_xs[k].deck_elev)]]

-----------------------------------------------------------------------------
(* Serialization (lines 656-670): values rounded to two decimals, counted   *)
(* in hundredths of a unit.                                                 *)

\* round(v, 2) of a value of v sub-units: the nearest hundredth, the even one
\* on a tie.
Round2(v) ==
    LET q == (v * 100) \div Unit
        r == (v * 100) % Unit
    IN  IF 2 * r > Unit \/ (2 * r = Unit /\ q % 2 = 1) THEN q + 1 ELSE q

Round2Opt(e) == IF IsNaN(e) THEN NaN ELSE Some(Round2(e[1]))

Serialized(df_xs) ==
    [sta        |-> [k \in 1..Len(df_xs) |-> Round2(df_xs[k].sta)],
     ground_elv |-> [k \in 1..Len(df_xs) |-> Round2Opt(df_xs[k].ground_elev)],
     deck_elev  |-> [k \in 1..Len(df_xs) |-> Round2Opt(df_xs[k].max_elev_road_deck)]]


-----------------------------------------------------------------------------
(* The worker as one function of its record                                 *)

\* A variant that samples no edge.
ProfileOfNoEdge(line, i, total_length, gdf, ground, deck) == gdf

\* Lines 389-469 of fn_get_profile_gdf_on_major_axis_from_dems: the loop
\* over the edges i, i+1, .. of the line.
RECURSIVE ProfileFrom(_, _, _, _, _, _)
ProfileFrom(line, i, total_length, gdf, ground, deck) ==
    IF i > Len(line) - 1
    THEN gdf
    ELSE ProfileFrom(line, i + 1,
                     total_length + PointDistance(line[i], line[i + 1]),
                     Merged(gdf, EdgePoints(line, i, total_length), total_length,
                            ground, deck),
                     ground, deck)

NoProfile == [sta |-> <<>>, ground_elv |-> <<>>, deck_elev |-> <<>>]

\* Lines 646-672: what the worker returns once the provider has returned got
\* for the centred record's line.
AfterFetch(line, got, deck) ==
    LET gdf   == ProfileFrom(line, 1, 0, <<>>, got.raster, deck)
        fixed == fn_fix_ground_spikes(gdf)
    IN  CASE got.outcome = "raise" -> [result |-> "error", out |-> NoProfile]
          [] got.outcome = "none" -> [result |-> "None", out |-> NoProfile]
          [] got.outcome = "raster" ->
                IF FixRaises(gdf) \/ SmoothRaises(fixed)
                THEN [result |-> "error", out |-> NoProfile]
                ELSE [result |-> "record",
                      out |-> Serialized(fn_get_smooth_deck_and_ground_profile(fixed))]

\* fn_populate_sta_ground_deck_elev (lines 573-675) called on one record
\* alone: everything the call can return (a record with its three lists,
\* None, or an error), over the answers the provider can get.
fn_populate_sta_ground_deck_elev(row) ==
    LET c == fn_center_mjr_axis_on_hull(row)
    IN  IF c.raised
        THEN { [result |-> "error", out |-> NoProfile] }
        ELSE IF ~row.deck_exists
        THEN { [result |-> "None", out |-> NoProfile] }
        ELSE { AfterFetch(c.geometry, got, row.deck_dem) :
                   got \in { GroundDem(ProviderFor(row.cog_ground_dem), answer,
                                       row.ground_dem) :
                                 answer \in Answers(ProviderFor(row.cog_ground_dem)) } }

-----------------------------------------------------------------------------
(* Inputs                                                                   *)

StrCogTif == <<"a", ".", "t", "i", "f">>

StrTifcog == <<"t", "i", "f", "c", "o", "g">>

StrIdx == <<"i", "d", "x">>

CfgStrings == {StrNone, StrCogTif, StrTifcog, StrIdx}

DeckOverMiddle == Raster(CellCentres, <<NaN, Some(DeckLevel), Some(DeckLevel), NaN>>)

DeckEqualsGround == Raster(CellCentres, [k \in 1..4 |-> Some(GroundLevel)])

DeckRasters == {DeckOverMiddle, DeckEqualsGround}

AvgWidth == 5 * Unit

\* No candidate cuts the hull in two.
NoSplitHull == [sd \in Sides |-> [k \in ProbeIdx |-> Pieces(1, 0)]]

\* The hull is best bisected one step to the left of the line.
LeftHull ==
    [sd \in Sides |->
        [k \in ProbeIdx |->
            IF k = 0 THEN Pieces(2, 2)
            ELSE IF k = 1 /\ sd = "left" THEN Pieces(2, 1) ELSE Pieces(1, 0)]]

\* The first split of the scan raises.
RaisingHull == [LeftHull EXCEPT !["left"][0] = Raises]

BaseRow ==
    [geometry       |-> StraightLine(4, 0),
     hull           |-> LeftHull,
     avg_width      |-> AvgWidth,
     cog_ground_dem |-> StrNone,
     deck_exists    |-> TRUE,
     deck_dem       |-> DeckOverMiddle,
     ground_dem     |-> FlatGround]

\* Rows of the pool specification.
PoolRowInputs ==
    { [BaseRow EXCEPT !.cog_ground_dem = c, !.deck_exists = d] :
          c \in {StrNone, StrIdx}, d \in BOOLEAN }

\* Rows of the single-row specification.
RowInputs ==
    { [BaseRow EXCEPT !.cog_ground_dem = c, !.deck_exists = d, !.deck_dem = k,
                      !.geometry = g, !.hull = h] :
          c \in CfgStrings, d \in BOOLEAN, k \in DeckRasters,
          g \in {StraightLine(4, 0), StraightLine(3, 0),
                 << <<0, 0>>, <<2 * HalfUnit, 0>>, <<5 * HalfUnit, 0>> >>},
          h \in {NoSplitHull, LeftHull, RaisingHull} }

\* The cells of the profile inputs: centres at 0, 1, .. units.
ProfileCentres == [k \in 1..MaxCells |-> (k - 1) * Unit]

\* A deck reading a quarter unit below the deck level, and a ground bump
\* above the deck.
LowDeckLevel == DeckLevel - HalfUnit \div 2

HighLevel == 6 * HalfUnit

DeckValues == {NaN, Some(GroundLevel), Some(LowDeckLevel), Some(DeckLevel)}

ProfileDecks == { Raster(ProfileCentres, v) : v \in [1..MaxCells -> DeckValues] }

ProfileGround == Raster(ProfileCentres, [k \in 1..MaxCells |-> Some(GroundLevel)])

\* Ground with a cell without data and a cell above the deck.
GapGround ==
    Raster(ProfileCentres,
           [k \in 1..MaxCells |->
               IF k = 2 THEN NaN ELSE IF k = 3 THEN Some(HighLevel) ELSE Some(GroundLevel)])

\* A single segment over the cells, and the same line with a vertex at 2 units.
ProfileLines ==
    { StraightLine(2 * (MaxCells - 1), 0),
      << <<0, 0>>, <<2 * Unit, 0>>, <<(MaxCells - 1) * Unit, 0>> >> }

ProfileInputs ==
    { [BaseRow EXCEPT !.geometry = g, !.hull = NoSplitHull, !.deck_dem = k,
                      !.ground_dem = s] :
          g \in ProfileLines, k \in ProfileDecks, s \in {ProfileGround, GapGround} }

\* A straight 50-unit line over a ground of 100.0 everywhere and a deck of
\* 110.0 over the cells at 20 .. 30 units, without data elsewhere.
ScenarioRow ==
    [BaseRow EXCEPT
        !.geometry   = StraightLine(2 * 50, 0),
        !.hull       = NoSplitHull,
        !.ground_dem = Raster([k \in 1..51 |-> (k - 1) * Unit],
                              [k \in 1..51 |-> Some(100 * Unit)]),
        !.deck_dem   = Raster([k \in 1..51 |-> (k - 1) * Unit],
                              [k \in 1..51 |->
                                  IF k - 1 \in 20..30 THEN Some(110 * Unit) ELSE NaN])]

\* Profiles for the spike repair: MaxStations stations one unit apart over a
\* ground that is flat or has a bump at the third station, the deck raster
\* showing at each station the ground itself, a reading a quarter unit above
\* the flat ground, or the deck.
SpikeCentres == [k \in 1..MaxStations |-> (k - 1) * Unit]

NearGroundLevel == GroundLevel + HalfUnit \div 2

SpikeGrounds ==
    { Raster(SpikeCentres, [k \in 1..MaxStations |-> Some(GroundLevel)]),
      Raster(SpikeCentres,
             [k \in 1..MaxStations |->
                 IF k = 3 THEN Some(HighLevel) ELSE Some(GroundLevel)]) }

SpikeDecks(ground) ==
    { Raster(SpikeCentres,
             [k \in 1..MaxStations |->
                 CASE v[k] = "ground" -> ground.vals[k]
                   [] v[k] = "near"   -> Some(NearGroundLevel)
                   [] v[k] = "deck"   -> Some(DeckLevel)]) :
          v \in [1..MaxStations -> {"ground", "near", "deck"}] }

SpikeInputs ==
    UNION { { [BaseRow EXCEPT !.geometry = StraightLine(2 * MaxStations, 0),
                              !.hull = NoSplitHull, !.deck_dem = k,
                              !.ground_dem = s] : k \in SpikeDecks(s) } :
                s \in SpikeGrounds }

-----------------------------------------------------------------------------
(* State                                                                    *)

RowIds == DOMAIN rows

Stages == {"QUEUED", "INIT", "CENTERED", "RASTERS", "SAMPLED", "ELEVATED",
           "REPAIRED", "SMOOTHED", "SERIALIZED", "SKIPPED", "RAISED"}

Returned == {"SERIALIZED", "SKIPPED", "RAISED"}

WkInit ==
    [geometry        |-> <<>>,      \* the geometry of the record being built
     shp_line_offset |-> <<>>,      \* fn_center_mjr_axis_on_hull's offset line
     best_left       |-> 0,
     best_right      |-> 0,
     best_difference |-> Inf,
     str_side        |-> "",
     providers       |-> <<>>,      \* the providers called, in order
     fetch_failed    |-> FALSE,     \* the provider could not get a raster
     ground          |-> NoRaster,  \* ground_dem_local_proj
     shp_mjr_axis_ln |-> <<>>,      \* the line handed to the sampler
     i               |-> 1,         \* the edge the sampling loop is at
     total_length    |-> 0,
     x_ls            |-> <<>>,      \* the points of the current edge
     gdf             |-> <<>>,      \* the profile rows
     df_xs           |-> <<>>,      \* the smoothed profile
     out             |-> [sta |-> <<>>, ground_elv |-> <<>>, deck_elev |-> <<>>]]

(***************************************************************************)
(* fn_fetch_hand_rating_curves (fetch_hand_rating_curves_local.py 318-421) *)
(* over the files it reads and writes.  A path is a string; the disk is    *)
(* the set of paths that are files.                                        *)
(***************************************************************************)

\* Line 322: the major-axis geopackage fn_add_hull_geometry leaves behind.
str_major_axis_lines == "08_cross_sections/08_07_mjr_axis_xs_w_feature_id_nbi_low_hull.gpkg"

\* The one shapefile the folder 00_input_shapefile may hold.
AoiShapefile == "00_input_shapefile/aoi.shp"

\* The two paths of the global configuration (main, lines 945-946).
str_hand_stream_ln_gpkg == "str_hand_stream_ln_gpkg"

str_hydro_table_parquet == "str_hydro_table_parquet"

\* Lines 76-87, as called at line 328: the shapefiles found under the folder.
fn_filelist(on_disk) == IF AoiShapefile \in on_disk THEN << AoiShapefile >> ELSE <<>>

\* Lines 325-330: the first shapefile found, or the empty string.
str_aoi_ar(on_disk) ==
    IF Len(fn_filelist(on_disk)) > 0 THEN fn_filelist(on_disk)[1] ELSE ""

\* Line 332.
list_input_files(on_disk) ==
    << str_major_axis_lines, str_aoi_ar(on_disk),
       str_hand_stream_ln_gpkg, str_hydro_table_parquet >>

\* Lines 335-337: os.path.isfile of each path (the empty string is no file).
list_files_exist(on_disk) ==
    [k \in 1..Len(list_input_files(on_disk)) |-> list_input_files(on_disk)[k] \in on_disk]

\* Python's all().
all(list) == \A k \in DOMAIN list : list[k]

\* Lines 348-352: one message per path that is no file, in list order.
NotFound(on_disk) ==
    SelectSeq(list_input_files(on_disk), LAMBDA str_file : str_file \notin on_disk)

\* Lines 410-421: the three files the function writes.
RatingOutputs ==
    { "08_cross_sections/08_08_mjr_axis_xs_w_feature_id_nbi_low_hull_rating.gpkg",
      "08_cross_sections/08_08_mjr_axis_xs_w_feature_id_nbi_low_hull_rating.geojson",
      "08_cross_sections/08_09_stream_segements.geojson" }

\* Every file the function needs.
RequiredFiles ==
    { str_major_axis_lines, AoiShapefile, str_hand_stream_ln_gpkg, str_hydro_table_parquet }

\* Lines 318-421.  gdf_returned is bound in the branch of line 339 only
\* (line 344); the else branch prints and falls through to line 356, which
\* reads gdf_returned: unbound, that read raises UnboundLocalError, before
\* anything is written.
fn_fetch_hand_rating_curves(on_disk) ==
    LET gdf_returned_bound == all(list_files_exist(on_disk))
    IN  [printed |-> IF gdf_returned_bound THEN <<>> ELSE NotFound(on_disk),
         raised  |-> ~gdf_returned_bound,
         disk    |-> IF gdf_returned_bound THEN on_disk \cup RatingOutputs ELSE on_disk]

-----------------------------------------------------------------------------
(* Initial states                                                           *)

\* The state before pool.imap, over the given rows and files.
InitOn(input_rows, on_disk) ==
    /\ rows = input_rows
    /\ pc = [r \in DOMAIN input_rows |-> "QUEUED"]
    /\ wk = [r \in DOMAIN input_rows |-> WkInit]
    /\ dispatched = [r \in DOMAIN input_rows |-> 0]
    /\ results = [r \in DOMAIN input_rows |-> "pending"]
    /\ collected = 0
    /\ list_gdfs = <<>>
    /\ opc = "MAP"
    /\ calls = <<>>
    /\ disk = on_disk
    /\ printed = <<>>

\* The same with every required file in place.
InitWith(input_rows) == InitOn(input_rows, RequiredFiles)

Init == \E input_rows \in [1..NumRows -> PoolRowInputs] : InitWith(input_rows)

InitRow == \E row \in RowInputs : InitWith(<< row >>)

InitCenter == \E h \in Hulls : InitWith(<< [BaseRow EXCEPT !.hull = h] >>)

InitSpikes == \E row \in SpikeInputs : InitWith(<< row >>)

InitFiles == \E on_disk \in SUBSET RequiredFiles : InitOn(<< BaseRow >>, on_disk)

InitSampler ==
    \E line \in Lines :
        InitWith(<< [BaseRow EXCEPT !.geometry = line, !.hull = NoSplitHull] >>)

InitProfile == \E row \in ProfileInputs \cup {ScenarioRow} : InitWith(<< row >>)

Running == { r \in RowIds : pc[r] \notin ({"QUEUED"} \cup Returned) }


-----------------------------------------------------------------------------
(* The worker call fn_populate_sta_ground_deck_elev(rows[r])                *)

WorkerFrame == <<rows, dispatched, collected, list_gdfs, opc, calls, disk, printed>>

\* Line 874: pool.imap hands the rows to the workers in list order, each to a
\* free worker process.
Dispatch(r) ==
    /\ opc = "MAP"
    /\ pc[r] = "QUEUED"
    /\ \A q \in RowIds : q < r => pc[q] # "QUEUED"
    /\ Cardinality(Running) < NumProcs
    /\ pc' = [pc EXCEPT ![r] = "INIT"]
    /\ dispatched' = [dispatched EXCEPT ![r] = @ + 1]
    /\ UNCHANGED <<rows, wk, results, collected, list_gdfs, opc, calls, disk, printed>>

\* Lines 576-581: center the major axis on the hull.
Center(r) ==
    /\ pc[r] = "INIT"
    /\ \E c \in {fn_center_mjr_axis_on_hull(rows[r])} :
           IF c.raised
           THEN /\ pc' = [pc EXCEPT ![r] = "RAISED"]
                /\ results' = [results EXCEPT ![r] = "error"]
                /\ wk' = wk
           ELSE /\ pc' = [pc EXCEPT ![r] = "CENTERED"]
                /\ results' = results
                /\ wk' = [wk EXCEPT ![r].geometry = c.geometry,
                                    ![r].shp_line_offset = c.shp_line_offset,
                                    ![r].best_left = c.flt_best_offset_left,
                                    ![r].best_right = c.flt_best_offset_right,
                                    ![r].best_difference = c.flt_best_difference,
                                    ![r].str_side = c.str_side]
    /\ UNCHANGED WorkerFrame

\* Lines 583-646 and 673-675: the deck raster is read if its file exists, the
\* provider the configuration string selects is called, and the call returns
\* None when the deck file is missing or the provider returned None.
FetchRasters(r) ==
    /\ pc[r] = "CENTERED"
    /\ IF ~rows[r].deck_exists
       THEN /\ pc' = [pc EXCEPT ![r] = "SKIPPED"]
            /\ results' = [results EXCEPT ![r] = "None"]
            /\ wk' = wk
       ELSE \E answer \in Answers(ProviderFor(rows[r].cog_ground_dem)) :
                LET provider == ProviderFor(rows[r].cog_ground_dem)
                    got      == GroundDem(provider, answer, rows[r].ground_dem)
                    called   == [wk EXCEPT ![r].providers = Append(@, provider),
                                           ![r].fetch_failed = FetchFailed(answer)]
                IN  CASE got.outcome = "raise" ->
                            /\ pc' = [pc EXCEPT ![r] = "RAISED"]
                            /\ results' = [results EXCEPT ![r] = "error"]
                            /\ wk' = called
                      [] got.outcome = "none" ->
                            /\ pc' = [pc EXCEPT ![r] = "SKIPPED"]
                            /\ results' = [results EXCEPT ![r] = "None"]
                            /\ wk' = called
                      [] got.outcome = "raster" ->
                            /\ pc' = [pc EXCEPT ![r] = "RASTERS"]
                            /\ results' = results
                            /\ wk' = [called EXCEPT
                                         ![r].ground = got.raster,
                                         ![r].shp_mjr_axis_ln = wk[r].geometry]
    /\ UNCHANGED WorkerFrame

NEdges(r) == Len(wk[r].shp_mjr_axis_ln) - 1

\* Lines 389-408 and 436-440: the points of the next edge.
SampleEdge(r) ==
    /\ pc[r] \in {"RASTERS", "ELEVATED"}
    /\ wk[r].i <= NEdges(r)
    /\ wk' = [wk EXCEPT ![r].x_ls =
                 EdgePoints(wk[r].shp_mjr_axis_ln, wk[r].i, wk[r].total_length)]
    /\ pc' = [pc EXCEPT ![r] = "SAMPLED"]
    /\ UNCHANGED <<results, WorkerFrame>>

\* Lines 410-469: stations and elevations of the edge's points, merged into
\* the profile.
ElevateEdge(r) ==
    /\ pc[r] = "SAMPLED"
    /\ LET line == wk[r].shp_mjr_axis_ln
           i    == wk[r].i
       IN  wk' = [wk EXCEPT
                     ![r].gdf = Merged(wk[r].gdf, wk[r].x_ls, wk[r].total_length,
                                       wk[r].ground, rows[r].deck_dem),
                     ![r].total_length = @ + PointDistance(line[i], line[i + 1]),
                     ![r].i = @ + 1]
    /\ pc' = [pc EXCEPT ![r] = "ELEVATED"]
    /\ UNCHANGED <<results, WorkerFrame>>

\* Lines 471-477: reset_index and fn_fix_ground_spikes.
FixSpikes(r) ==
    /\ pc[r] = "ELEVATED"
    /\ wk[r].i > NEdges(r)
    /\ IF FixRaises(wk[r].gdf)
       THEN /\ pc' = [pc EXCEPT ![r] = "RAISED"]
            /\ results' = [results EXCEPT ![r] = "error"]
            /\ wk' = wk
       ELSE /\ pc' = [pc EXCEPT ![r] = "REPAIRED"]
            /\ results' = results
            /\ wk' = [wk EXCEPT ![r].gdf = fn_fix_ground_spikes(@)]
    /\ UNCHANGED WorkerFrame

\* Line 654: fn_get_smooth_deck_and_ground_profile.
Smooth(r) ==
    /\ pc[r] = "REPAIRED"
    /\ IF SmoothRaises(wk[r].gdf)
       THEN /\ pc' = [pc EXCEPT ![r] = "RAISED"]
            /\ results' = [results EXCEPT ![r] = "error"]
            /\ wk' = wk
       ELSE /\ pc' = [pc EXCEPT ![r] = "SMOOTHED"]
            /\ results' = results
            /\ wk' = [wk EXCEPT ![r].df_xs =
                         fn_get_smooth_deck_and_ground_profile(wk[r].gdf)]
    /\ UNCHANGED WorkerFrame

\* Lines 656-672: round, write the three lists into the record, return it.
Serialize(r) ==
    /\ pc[r] = "SMOOTHED"
    /\ wk' = [wk EXCEPT ![r].out = Serialized(wk[r].df_xs)]
    /\ pc' = [pc EXCEPT ![r] = "SERIALIZED"]
    /\ results' = [results EXCEPT ![r] = "record"]
    /\ UNCHANGED WorkerFrame

-----------------------------------------------------------------------------
(* fn_attribute_mjr_axis from line 874 on                                   *)

\* Line 874: list(pool.imap(..)) takes the results in row order; a worker's
\* error is raised again in the parent, which ends the function.
Collect ==
    /\ opc = "MAP"
    /\ collected < Len(rows)
    /\ pc[collected + 1] \in Returned
    /\ IF results[collected + 1] = "error"
       THEN /\ opc' = "RAISED"
            /\ UNCHANGED <<collected, list_gdfs>>
       ELSE /\ collected' = collected + 1
            /\ list_gdfs' = Append(list_gdfs,
                                   IF results[collected + 1] = "None"
                                   THEN 0 ELSE collected + 1)
            /\ opc' = opc
    /\ UNCHANGED <<rows, pc, wk, dispatched, results, calls, disk, printed>>

\* Lines 880-881: pool.close(), pool.join().
CloseJoin ==
    /\ opc = "MAP"
    /\ collected = Len(rows)
    /\ opc' = "JOINED"
    /\ UNCHANGED <<rows, pc, wk, dispatched, results, collected, list_gdfs, calls,
                   disk, printed>>

\* A variant that drops the None values and lists the rest last first.
DropNoneReversed(list) ==
    LET kept == SelectSeq(list, LAMBDA item : item # 0)
    IN  [k \in 1..Len(kept) |-> kept[Len(kept) + 1 - k]]

\* A variant that keeps the None values.
KeepNone(list) == list

\* Line 884: the None values are dropped.
DropNone(list) == SelectSeq(list, LAMBDA item : item # 0)

\* A variant that plots the cross sections before the rating curves are
\* fetched.
DownstreamPlotFirst ==
    << "to_file", "fn_assign_feature_id_to_mjr_axis", "fn_conflate_nbi",
       "fn_compute_low_chord_attributes", "fn_add_hull_geometry",
       "fn_plot_cross_sections", "fn_fetch_hand_rating_curves", "fn_generate_kml" >>

\* Lines 929-959: the profile geopackage and the sub-processes, in order.
Downstream ==
    << "to_file", "fn_assign_feature_id_to_mjr_axis", "fn_conflate_nbi",
       "fn_compute_low_chord_attributes", "fn_add_hull_geometry",
       "fn_fetch_hand_rating_curves", "fn_plot_cross_sections", "fn_generate_kml" >>

\* Lines 884-887: filter, then concatenate when something is left.
Merge ==
    /\ opc = "JOINED"
    /\ list_gdfs' = DropNone(list_gdfs)
    /\ opc' = IF Len(DropNone(list_gdfs)) > 0 THEN "MERGED" ELSE "DONE"
    /\ UNCHANGED <<rows, pc, wk, dispatched, results, collected, calls, disk, printed>>

\* Lines 929-959, one write or sub-process at a time.  The call of line
\* 950 runs fn_fetch_hand_rating_curves in the parent, outside any try: its
\* error ends fn_attribute_mjr_axis.
RunDownstream ==
    /\ opc = "MERGED"
    /\ calls' = Append(calls, Downstream[Len(calls) + 1])
    /\ IF Downstream[Len(calls) + 1] = "fn_fetch_hand_rating_curves"
       THEN \E ret \in {fn_fetch_hand_rating_curves(disk)} :
                /\ disk' = ret.disk
                /\ printed' = printed \o ret.printed
                /\ opc' = IF ret.raised THEN "RAISED" ELSE opc
       ELSE /\ opc' = IF Len(calls) + 1 = Len(Downstream) THEN "DONE" ELSE opc
            /\ UNCHANGED <<disk, printed>>
    /\ UNCHANGED <<rows, pc, wk, dispatched, results, collected, list_gdfs>>

Next ==
    \/ \E r \in RowIds : Dispatch(r)
    \/ \E r \in RowIds : Center(r)
    \/ \E r \in RowIds : FetchRasters(r)
    \/ \E r \in RowIds : SampleEdge(r)
    \/ \E r \in RowIds : ElevateEdge(r)
    \/ \E r \in RowIds : FixSpikes(r)
    \/ \E r \in RowIds : Smooth(r)
    \/ \E r \in RowIds : Serialize(r)
    \/ Collect
    \/ CloseJoin
    \/ Merge
    \/ RunDownstream

\* The pool over NumRows rows.
Spec == Init /\ [][Next]_vars

\* One row, over the configuration strings, decks, lines and hulls of RowInputs.
SpecRow == InitRow /\ [][Next]_vars

\* One row, over every hull of Hulls.
SpecCenter == InitCenter /\ [][Next]_vars

\* One row, over every polyline of Lines.
SpecSampler == InitSampler /\ [][Next]_vars

\* One row, over the lines, decks and grounds of ProfileInputs, and the
\* 50-unit scenario.
SpecProfile == InitProfile /\ [][Next]_vars


\* One row, over the grounds and decks of SpikeInputs.
SpecSpikes == InitSpikes /\ [][Next]_vars

\* One row, over every set of the files fn_fetch_hand_rating_curves needs.
SpecFiles == InitFiles /\ [][Next]_vars

-----------------------------------------------------------------------------
(* Properties                                                               *)

\* The sampling loop of row r has run over every edge: the profile is complete.
ProfileDone(r) ==
    /\ pc[r] \in {"ELEVATED", "REPAIRED", "SMOOTHED", "SERIALIZED"}
    /\ wk[r].i > NEdges(r)

Pt(r, k) == << wk[r].gdf[k].x, wk[r].gdf[k].y >>

Sta(r, k) == wk[r].gdf[k].h_distance

\* The worker has got past the raster fetch.
PastFetch(r) == pc[r] \in {"RASTERS", "SAMPLED", "ELEVATED", "REPAIRED", "SMOOTHED",
                           "SERIALIZED"}

StageTransitions ==
    { <<"QUEUED", "INIT">>,
      <<"INIT", "CENTERED">>, <<"INIT", "RAISED">>,
      <<"CENTERED", "RASTERS">>, <<"CENTERED", "SKIPPED">>, <<"CENTERED", "RAISED">>,
      <<"RASTERS", "SAMPLED">>,
      <<"SAMPLED", "ELEVATED">>,
      <<"ELEVATED", "SAMPLED">>, <<"ELEVATED", "REPAIRED">>, <<"ELEVATED", "RAISED">>,
      <<"REPAIRED", "SMOOTHED">>,
      <<"SMOOTHED", "SERIALIZED">> }

\* C1 as stated: the null exit SKIPPED is entered only from the elevation
\* stage, after the line has been sampled.
C1_SkippedOnlyAfterSampling ==
    [][\A r \in RowIds :
          pc'[r] = "SKIPPED" /\ pc[r] # "SKIPPED"
              => pc[r] \in {"SAMPLED", "ELEVATED"} /\ wk[r].x_ls # <<>>]_vars

\* C1 as amended: every row passes centering, raster fetch, then per edge
\* dense sampling and elevation lookup, then spike repair, smoothing and
\* serialization in this order; the only other exits are an error raised by
\* centering, by the raster fetch or by the spike repair, and the null result
\* SKIPPED, which is entered only directly after centering, before any point
\* is sampled, and only because the deck raster file does not exist or the
\* provider found no raster.
C1_StageOrder ==
    [][\A r \in RowIds :
          pc'[r] # pc[r] =>
              /\ <<pc[r], pc'[r]>> \in StageTransitions
              /\ pc'[r] = "SKIPPED" =>
                    /\ pc[r] = "CENTERED"
                    /\ wk'[r].gdf = <<>> /\ wk'[r].x_ls = <<>>
                    /\ ~rows[r].deck_exists \/ wk'[r].fetch_failed]_vars

\* C1 witness: a row whose deck raster exists was skipped because the tile
\* index provider found no raster.
C1_Witness ==
    \E r \in RowIds :
        /\ pc[r] = "SKIPPED" /\ rows[r].deck_exists /\ wk[r].fetch_failed
        /\ wk[r].providers = << "fn_get_ground_dem_rtree" >>

\* C2 as stated: whenever the raster fetch fails, the worker returns None and
\* raises no error, whichever provider was called.
C2_FetchFailureReturnsNone ==
    \A r \in RowIds :
        wk[r].fetch_failed => pc[r] = "SKIPPED" /\ results[r] = "None"

CountIn(list, r) == Cardinality({ k \in 1..Len(list) : list[k] = r })

\* C3: every row is handed to a worker at most once, and once the parent has
\* the merged list every row was handed out exactly once, the list holds one
\* entry for each row whose worker returned a record, none for a row whose
\* worker returned None, and no None entry.
C3_DispatchOnceMergeExact ==
    /\ \A r \in RowIds : dispatched[r] <= 1
    /\ opc \in {"MERGED", "DONE"} =>
          /\ \A r \in RowIds :
                /\ dispatched[r] = 1
                /\ CountIn(list_gdfs, r) = (IF results[r] = "record" THEN 1 ELSE 0)
          /\ \A k \in 1..Len(list_gdfs) : list_gdfs[k] \in RowIds

\* C3 witness: the merge is done, one worker returned None and another a record.
C3_Witness ==
    /\ opc = "DONE"
    /\ \E r, q \in RowIds : results[r] = "None" /\ results[q] = "record"
    /\ Len(list_gdfs) < Len(rows)

\* C4 as stated: the record carries the offset line as its geometry, and the
\* profile is sampled along the offset line.
C4_GeometryIsCenteredLine ==
    \A r \in RowIds :
        /\ (pc[r] = "CENTERED" \/ PastFetch(r)) =>
              wk[r].geometry = wk[r].shp_line_offset
        /\ PastFetch(r) => wk[r].shp_mjr_axis_ln = wk[r].shp_line_offset

\* The provider C5 names for a configuration string: the web service for
\* 'None', the provided raster for a string ending in "tif", else the index.
ClaimedProvider(s) ==
    IF s = StrNone
    THEN "fn_get_ground_dem_from_usgs_service"
    ELSE IF PyLast3(s) = StrTif
         THEN "fn_get_ground_dem_from_provided_cog"
         ELSE "fn_get_ground_dem_rtree"

\* C5 as stated: a row whose ground raster is fetched has called exactly one
\* provider, the one the configuration string selects.
C5_ProviderByConfigString ==
    \A r \in RowIds :
        (PastFetch(r) \/ wk[r].providers # <<>>) =>
            wk[r].providers = << ClaimedProvider(rows[r].cog_ground_dem) >>


\* The candidates that split the hull of row r into exactly two pieces.
ValidCandidates(r) ==
    { c \in Sides \X (0..(num_iterations - 1)) : ValidAt(rows[r].hull, c[1], c[2]) }

DifferenceAt(r, c) == SplitAt(rows[r].hull, c[1], c[2]).diff

\* Centering has returned for row r.
CenteringReturned(r) == pc[r] = "CENTERED" \/ PastFetch(r) \/ pc[r] = "SKIPPED"

\* C6 as stated: whenever some candidate splits the hull into two pieces, the
\* final side and offset are those of a valid candidate whose area difference
\* is the least over the valid candidates of both sides.
C6_FinalOffsetMinimisesDifference ==
    \A r \in RowIds :
        (CenteringReturned(r) /\ ValidCandidates(r) # {}) =>
            \E c \in ValidCandidates(r) :
                /\ c[1] = wk[r].str_side
                /\ c[2] * StepOf(rows[r].avg_width) =
                       (IF wk[r].str_side = "right" THEN wk[r].best_right
                                                    ELSE wk[r].best_left)
                /\ \A d \in ValidCandidates(r) : DifferenceAt(r, c) <= DifferenceAt(r, d)

\* vs occurs in ps as a subsequence.
RECURSIVE Embeds(_, _)
Embeds(vs, ps) ==
    IF vs = <<>> THEN TRUE
    ELSE IF ps = <<>> THEN FALSE
    ELSE IF Head(vs) = Head(ps) THEN Embeds(Tail(vs), Tail(ps))
    ELSE Embeds(vs, Tail(ps))

Points(r) == [k \in 1..Len(wk[r].gdf) |-> Pt(r, k)]

\* C7 as stated: the points of a complete profile start at the first vertex
\* of the line, end at its last vertex, hold every vertex in order, and the
\* last station is the length of the line.
C7_ProfileSpansLine ==
    \A r \in RowIds :
        ProfileDone(r) =>
            LET line == wk[r].shp_mjr_axis_ln
                n    == Len(wk[r].gdf)
            IN  /\ n > 0
                /\ Pt(r, 1) = line[1]
                /\ Pt(r, n) = Last(line)
                /\ Embeds(line, Points(r))
                /\ Sta(r, n) = LineLength(line)

Spacing(r, k) == PointDistance(Pt(r, k), Pt(r, k + 1))

\* C8 as stated: consecutive points of a complete profile are no farther
\* apart than the sampling interval.
C8_SpacingAtMostInterval ==
    \A r \in RowIds :
        ProfileDone(r) =>
            \A k \in 1..(Len(wk[r].gdf) - 1) :
                Spacing(r, k) <= flt_xs_sample_interval * Unit

\* C8 as amended: consecutive points of a complete profile are less than
\* twice the sampling interval apart.
C8_SpacingBelowTwiceInterval ==
    \A r \in RowIds :
        ProfileDone(r) =>
            \A k \in 1..(Len(wk[r].gdf) - 1) :
                Spacing(r, k) < 2 * flt_xs_sample_interval * Unit

\* C8 witness: a complete profile of a two-edge line with two consecutive
\* points farther apart than the interval.
C8_Witness ==
    \E r \in RowIds :
        /\ ProfileDone(r) /\ NEdges(r) = 2
        /\ \E k \in 1..(Len(wk[r].gdf) - 1) :
               Spacing(r, k) > flt_xs_sample_interval * Unit

\* C9 as stated: the stations of a complete profile start at 0 and are
\* strictly increasing.
C9_StationsStrictlyIncreasing ==
    \A r \in RowIds :
        ProfileDone(r) =>
            /\ Len(wk[r].gdf) > 0 /\ Sta(r, 1) = 0
            /\ \A k \in 1..(Len(wk[r].gdf) - 1) : Sta(r, k) < Sta(r, k + 1)

CeilDiv(a, b) == (a + b - 1) \div b

\* ceil(L / I) + 1 for the line of row r
ClaimedCount(r) ==
    CeilDiv(LineLength(wk[r].shp_mjr_axis_ln), flt_xs_sample_interval * Unit) + 1

InCoverage(raster, x, y) ==
    /\ 2 * Abs(y) <= Unit
    /\ \E k \in 1..Len(raster.xs) : 2 * Abs(x - raster.xs[k]) <= Unit

\* C11 as stated: a sampled point outside the coverage of the ground (deck)
\* raster has a null ground (deck) elevation.
C11_OutsideCoverageIsNull ==
    \A r \in RowIds :
        pc[r] = "ELEVATED" =>
            \A k \in 1..Len(wk[r].gdf) :
                /\ ~InCoverage(wk[r].ground, wk[r].gdf[k].x, wk[r].gdf[k].y)
                       => IsNaN(wk[r].gdf[k].elev_grnd)
                /\ ~InCoverage(rows[r].deck_dem, wk[r].gdf[k].x, wk[r].gdf[k].y)
                       => IsNaN(wk[r].gdf[k].elev_deck)

\* fn_fix_ground_spikes has returned for row r.
Repaired(r) == pc[r] \in {"REPAIRED", "SMOOTHED", "SERIALIZED"}

\* The deck elevation of row k as sampled, before the repair.
PreDeck(r, k) == Lookup(rows[r].deck_dem, wk[r].gdf[k].x, wk[r].gdf[k].y)

PostDeck(r, k) == wk[r].gdf[k].elev_deck

\* Two present readings more than (less than) the threshold apart.
Far(a, b) == ~IsNaN(a) /\ ~IsNaN(b) /\ Abs(a[1] - b[1]) > SpikeThreshold

Consistent(a, b) == ~IsNaN(a) /\ ~IsNaN(b) /\ Abs(a[1] - b[1]) < SpikeThreshold

\* The value at step j of n on the straight line from p to q.
Between(p, q, j, n) == Some(p[1] + ((q[1] - p[1]) * j) \div n)

AtGround(r, k) == ~PyNeq(wk[r].gdf[k].elev_grnd, PreDeck(r, k))

OffGround(r, k) == PyNeq(wk[r].gdf[k].elev_grnd, PreDeck(r, k))

\* One row at the ground between two rows off the ground whose readings are
\* more than the threshold away from it.
SingleGroundSpike(r, k) ==
    /\ AtGround(r, k) /\ OffGround(r, k - 1) /\ OffGround(r, k + 1)
    /\ Far(PreDeck(r, k), PreDeck(r, k - 1))
    /\ Far(PreDeck(r, k), PreDeck(r, k + 1))

DoubleGroundSpike(r, k) ==
    /\ AtGround(r, k) /\ AtGround(r, k + 1)
    /\ OffGround(r, k - 1) /\ OffGround(r, k + 2)
    /\ Far(PreDeck(r, k), PreDeck(r, k - 1))
    /\ Far(PreDeck(r, k + 1), PreDeck(r, k + 2))

CompleteRow(r, k) ==
    ~IsNaN(wk[r].gdf[k].elev_grnd) /\ ~IsNaN(wk[r].gdf[k].elev_deck)

\* The positions of the serialized lists holding the station of profile row k.
OutAt(r, k) ==
    { j \in 1..Len(wk[r].out.sta) : wk[r].out.sta[j] = Round2(wk[r].gdf[k].h_distance) }

\* C13 as stated: the serialized profile holds only stations at which both
\* the ground and the deck elevation are present.
C13_OnlyCompleteStations ==
    \A r \in RowIds :
        pc[r] = "SERIALIZED" =>
            \A j \in 1..Len(wk[r].out.sta) :
                \E k \in 1..Len(wk[r].gdf) : j \in OutAt(r, k) /\ CompleteRow(r, k)

\* C13 as amended: rows with a missing value are dropped from the deck series
\* only.  Every station of the profile is serialized with its ground
\* elevation, and at a station without a complete row the serialized deck
\* value is the ground elevation again (null where the ground is missing).
C13_EveryStationSerialized ==
    \A r \in RowIds :
        pc[r] = "SERIALIZED" =>
            /\ Len(wk[r].out.sta) >= Len(wk[r].gdf)
            /\ \A k \in 1..Len(wk[r].gdf) :
                  \E j \in OutAt(r, k) :
                      /\ wk[r].out.ground_elv[j] = Round2Opt(wk[r].gdf[k].elev_grnd)
                      /\ (\A i \in 1..Len(wk[r].gdf) : i \in OutAt(r, k) => ~CompleteRow(r, i))
                             => wk[r].out.deck_elev[j] = wk[r].out.ground_elv[j]

\* C13 witness: a serialized profile holding a station whose deck elevation
\* is missing and one whose ground elevation is missing.
C13_Witness ==
    \E r \in RowIds :
        /\ pc[r] = "SERIALIZED"
        /\ \E k, i \in 1..Len(wk[r].gdf) :
               /\ IsNaN(wk[r].gdf[k].elev_deck) /\ ~IsNaN(wk[r].gdf[k].elev_grnd)
               /\ IsNaN(wk[r].gdf[i].elev_grnd) /\ ~IsNaN(wk[r].gdf[i].elev_deck)
               /\ OutAt(r, k) # {} /\ OutAt(r, i) # {}

\* C14: at every station of the smoothed profile max_elev_road_deck is the
\* larger of the ground elevation and the smoothed deck elevation (a missing
\* value is skipped), so it is never below the ground elevation.
C14_MaxOfGroundAndDeck ==
    \A r \in RowIds :
        pc[r] \in {"SMOOTHED", "SERIALIZED"} =>
            \A k \in 1..Len(wk[r].df_xs) :
                LET row == wk[r].df_xs[k]
                IN  /\ (~IsNaN(row.ground_elev) /\ ~IsNaN(row.deck_elev)) =>
                           /\ row.max_elev_road_deck =
                                  Some(Max2(row.ground_elev[1], row.deck_elev[1]))
                           /\ row.max_elev_road_deck[1] >= row.ground_elev[1]
                           /\ row.max_elev_road_deck[1] >= row.deck_elev[1]
                    /\ IsNaN(row.deck_elev) => row.max_elev_road_deck = row.ground_elev
                    /\ IsNaN(row.ground_elev) => row.max_elev_road_deck = row.deck_elev

\* C14 witness: a smoothed profile with a station whose deck is above the
\* ground and a station whose deck is below the ground.
C14_Witness ==
    \E r \in RowIds :
        /\ pc[r] = "SMOOTHED"
        /\ \E k, i \in 1..Len(wk[r].df_xs) :
               /\ ~IsNaN(wk[r].df_xs[k].ground_elev) /\ ~IsNaN(wk[r].df_xs[k].deck_elev)
               /\ wk[r].df_xs[k].deck_elev[1] > wk[r].df_xs[k].ground_elev[1]
               /\ ~IsNaN(wk[r].df_xs[i].ground_elev) /\ ~IsNaN(wk[r].df_xs[i].deck_elev)
               /\ wk[r].df_xs[i].deck_elev[1] < wk[r].df_xs[i].ground_elev[1]

\* The filter cannot be applied to the complete rows of row r's profile.
FilterInapplicable(r) ==
    SavgolRaises(Len(DropNa(wk[r].gdf)), WindowOf(Len(DropNa(wk[r].gdf))))

\* Every complete row of profile gdf appears in df_xs with its deck elevation
\* as sampled and repaired.
DeckUnsmoothed(gdf, df_xs) ==
    \A k \in 1..Len(gdf) :
        (~IsNaN(gdf[k].elev_grnd) /\ ~IsNaN(gdf[k].elev_deck)) =>
            \E j \in 1..Len(df_xs) :
                /\ df_xs[j].sta = gdf[k].h_distance
                /\ df_xs[j].deck_elev = gdf[k].elev_deck

\* C15: fn_get_smooth_deck_and_ground_profile never raises: a worker that has
\* its repaired profile always moves on to the smoothed stage, also when the
\* profile has too few complete rows for the filter, and an empty profile
\* gives an empty result.  When the filter cannot be applied the deck series
\* of the result is exactly the unsmoothed one.
C15_SmootherNeverRaises ==
    [][ /\ ~SmoothRaises(<<>>)
        /\ fn_get_smooth_deck_and_ground_profile(<<>>) = <<>>
        /\ \A r \in RowIds :
              (pc[r] = "REPAIRED" /\ pc'[r] # "REPAIRED") =>
                  /\ pc'[r] = "SMOOTHED"
                  /\ FilterInapplicable(r) => DeckUnsmoothed(wk[r].gdf, wk'[r].df_xs) ]_vars

\* C15 witness: a profile with some, but too few, complete rows has been
\* smoothed.
C15_Witness ==
    \E r \in RowIds :
        /\ pc[r] = "SMOOTHED"
        /\ FilterInapplicable(r)
        /\ Len(DropNa(wk[r].gdf)) \in 1..2
        /\ Len(DropNa(wk[r].gdf)) < Len(wk[r].gdf)
        /\ DeckUnsmoothed(wk[r].gdf, wk[r].df_xs)

\* The serialized profile the scenario expects: 51 stations 0, 1, .., 50, the
\* ground 100.0 everywhere, the deck value 110.0 at stations 20 to 30 and
\* 100.0 elsewhere (all in hundredths).
ScenarioExpected ==
    [sta        |-> [k \in 1..51 |-> (k - 1) * 100],
     ground_elv |-> [k \in 1..51 |-> Some(100 * 100)],
     deck_elev  |-> [k \in 1..51 |->
                        IF (k - 1) \in 20..30 THEN Some(110 * 100) ELSE Some(100 * 100)]]

\* C16: a straight single-segment line of 50 units sampled at interval 1 over
\* a ground of 100.0 and a deck of 110.0 at stations 20 to 30 (null elsewhere)
\* gives 51 points with ground 100.0 everywhere and a maximum of 110.0 at
\* stations 20 to 30 and 100.0 elsewhere.
C16_ScenarioProfile ==
    \A r \in RowIds :
        (rows[r] = ScenarioRow /\ pc[r] = "SERIALIZED") => wk[r].out = ScenarioExpected

\* fn_center_mjr_axis_on_hull was left by an error for row r: the worker
\* ended before any of the function's results was stored.
CenteringRaised(r) == pc[r] = "RAISED" /\ wk[r].shp_line_offset = <<>>

\* C17: when no candidate on either side splits the hull into two pieces
\* (the splits give another number of pieces or fail), the centering does not
\* crash, both best offsets are zero and the line returned is the line at
\* offset 0.
C17_NoValidSplitKeepsLine ==
    \A r \in RowIds :
        ((CenteringRaised(r) \/ CenteringReturned(r)) /\ ValidCandidates(r) = {}) =>
            /\ ~CenteringRaised(r)
            /\ wk[r].best_left = 0
            /\ wk[r].best_right = 0
            /\ wk[r].shp_line_offset = rows[r].geometry

\* No split of the hull of row r fails: the hull is a convex polygon and the
\* offset lines are proper lines.
ConvexHull(r) ==
    \A sd \in Sides : \A k \in 0..(num_iterations - 1) :
        SplitAt(rows[r].hull, sd, k).kind = "pieces"

\* The magnitude of the final offset of row r.
ChosenOffset(r) ==
    IF wk[r].str_side = "right" THEN wk[r].best_right ELSE wk[r].best_left

\* C18: for a line in a convex hull of positive average width the centering
\* returns after at most num_iterations candidates per side, and the offset
\* it chooses is that of one of those candidates and lies between 0 and the
\* average width.
C18_ChosenOffsetWithinWidth ==
    \A r \in RowIds :
        (ConvexHull(r) /\ rows[r].avg_width > 0
            /\ (CenteringRaised(r) \/ CenteringReturned(r))) =>
            /\ ~CenteringRaised(r)
            /\ \E k \in 0..(num_iterations - 1) :
                   ChosenOffset(r) = k * StepOf(rows[r].avg_width)
            /\ ChosenOffset(r) >= 0
            /\ ChosenOffset(r) <= rows[r].avg_width
            /\ wk[r].shp_line_offset =
                   parallel_offset(rows[r].geometry, ChosenOffset(r), wk[r].str_side)

\* C18 witness: a line in a convex hull has been moved by the offset of the
\* last candidate.
C18_Witness ==
    \E r \in RowIds :
        /\ ConvexHull(r) /\ CenteringReturned(r)
        /\ ChosenOffset(r) = (num_iterations - 1) * StepOf(rows[r].avg_width)
        /\ wk[r].shp_line_offset # rows[r].geometry

\* C19 as stated: the best offset of either side is never negative and never
\* larger than half the average hull width.
C19_BestOffsetWithinHalfWidth ==
    \A r \in RowIds :
        CenteringReturned(r) =>
            /\ wk[r].best_left >= 0 /\ 2 * wk[r].best_left <= rows[r].avg_width
            /\ wk[r].best_right >= 0 /\ 2 * wk[r].best_right <= rows[r].avg_width

\* C19 as amended: the candidates run from 0 up to, but not including, the
\* whole average hull width, so the best offset of either side is never
\* negative and never larger than 99 hundredths of the average hull width.
C19_BestOffsetBelowWidth ==
    \A r \in RowIds :
        CenteringReturned(r) =>
            /\ wk[r].best_left >= 0
            /\ num_iterations * wk[r].best_left
                   <= (num_iterations - 1) * rows[r].avg_width
            /\ wk[r].best_right >= 0
            /\ num_iterations * wk[r].best_right
                   <= (num_iterations - 1) * rows[r].avg_width

\* C19 witness: the centering returned a best offset beyond half the average
\* hull width.
C19_Witness ==
    \E r \in RowIds :
        /\ CenteringReturned(r)
        /\ 2 * wk[r].best_left > rows[r].avg_width

\* C20: searching again from the line a first centering returned finds a best
\* offset of at most one step on both sides.  The hull is described relative
\* to the line, and the returned record holds the line it was given, so the
\* second search sees the same hull.
C20_SecondSearchWithinOneStep ==
    \A r \in RowIds :
        CenteringReturned(r) =>
            \E second \in {fn_center_mjr_axis_on_hull(
                               [rows[r] EXCEPT !.geometry = wk[r].geometry])} :
                /\ ~second.raised
                /\ second.flt_best_offset_left <= StepOf(rows[r].avg_width)
                /\ second.flt_best_offset_right <= StepOf(rows[r].avg_width)

\* The worker of row r has called the tile-index provider.
RtreeCalled(r) == wk[r].providers = << "fn_get_ground_dem_rtree" >>

\* The provider call of row r was left by an error.
FetchRaised(r) ==
    pc[r] = "RAISED" /\ wk[r].providers # <<>> /\ wk[r].shp_mjr_axis_ln = <<>>

\* The provider call of row r returned a raster.
FetchGaveRaster(r) == PastFetch(r) \/ (pc[r] = "RAISED" /\ wk[r].shp_mjr_axis_ln # <<>>)

\* C21: fn_get_ground_dem_rtree never raises because of a tile; it returns a
\* raster exactly when at least one intersecting tile could be read, and when
\* no tile intersects or every intersecting tile fails it returns None and
\* the row's result is None.
C21_RasterIffSomeTileOpens ==
    \A r \in RowIds :
        RtreeCalled(r) =>
            /\ ~FetchRaised(r)
            /\ FetchGaveRaster(r) <=> ~wk[r].fetch_failed
            /\ wk[r].fetch_failed => (pc[r] = "SKIPPED" /\ results[r] = "None")

\* For each record a batch can hold, what the worker returns when called on
\* that record alone.
ReturnsAlone == [row \in PoolRowInputs |-> fn_populate_sta_ground_deck_elev(row)]

\* What the worker call of row r holds that the parent or another call could
\* see.
WorkerState(r) == << pc[r], wk[r], results[r] >>

SomeSplitFails(r) ==
    \E sd \in Sides : \E k \in ProbeIdx : rows[r].hull[sd][k].kind = "raise"

\* The hull with every failing candidate replaced by one that gives a single
\* piece, which the scan passes over.
WithoutFailures(hull) ==
    [sd \in Sides |->
        [k \in ProbeIdx |->
            IF hull[sd][k].kind = "raise" THEN Pieces(1, 0) ELSE hull[sd][k]]]

\* C23: a candidate whose split raises is discarded silently, wherever it
\* comes in the scan (the first candidate included): the centering raises no
\* error and the best offsets are those found when the failing candidates
\* are passed over.
C23_FailedSplitDiscarded ==
    \A r \in RowIds :
        ((CenteringRaised(r) \/ CenteringReturned(r)) /\ SomeSplitFails(r)) =>
            /\ ~CenteringRaised(r)
            /\ \E passed \in {fn_center_mjr_axis_on_hull(
                                 [rows[r] EXCEPT !.hull = WithoutFailures(@)])} :
                   /\ wk[r].best_left = passed.flt_best_offset_left
                   /\ wk[r].best_right = passed.flt_best_offset_right

DeckColumn(gdf) == [k \in 1..Len(gdf) |-> gdf[k].elev_deck]

\* The deck column of profile gdf after the loop of lines 361-369, before
\* the interpolation.
Marked(gdf) == AssessFrom(DeckColumn(gdf), Assess(gdf), 1, Len(gdf))

\* Station k - 1 is a gap station that the loop has flagged.
PrevFlagged(gdf, marked, k) == (k - 1) \in Assess(gdf) /\ IsNaN(marked[k - 1])

\* Two present readings at least the threshold apart.
NotBelow(a, b) == ~IsNaN(a) /\ ~IsNaN(b) /\ Abs(a[1] - b[1]) >= SpikeThreshold

\* fn_fix_ground_spikes runs for row r in this step and returns.
RepairStep(r) == pc[r] = "ELEVATED" /\ pc'[r] = "REPAIRED"

\* C24 as stated: a gap station is set to missing exactly when it is next to
\* an already flagged station or its deck elevation differs by more than 0.5
\* from both of its immediate neighbours.
C24_FlaggedWhenBothDiffer ==
    [][ \A r \in RowIds :
            RepairStep(r) =>
                \E marked \in {Marked(wk[r].gdf)} :
                    \A k \in Assess(wk[r].gdf) :
                        IsNaN(marked[k]) <=>
                            \/ PrevFlagged(wk[r].gdf, marked, k)
                            \/ /\ Far(wk[r].gdf[k].elev_deck, wk[r].gdf[k - 1].elev_deck)
                               /\ Far(wk[r].gdf[k].elev_deck, wk[r].gdf[k + 1].elev_deck)
      ]_vars

\* C24 as amended: a gap station with a neighbour outside the gap is set to
\* missing when its deck elevation differs by 0.5 or more from either
\* neighbour (or the station before it has no deck elevation); any gap
\* station is set to missing when the gap station before it has been
\* flagged; every other gap station, and every station outside a gap, keeps
\* its deck elevation, and the flagged ones are then interpolated.
C24_FlaggedWhenEitherDiffers ==
    [][ \A r \in RowIds :
            RepairStep(r) =>
                \E marked \in {Marked(wk[r].gdf)} :
                    /\ \A k \in Assess(wk[r].gdf) :
                          IsNaN(marked[k]) <=>
                              \/ PrevFlagged(wk[r].gdf, marked, k)
                              \/ /\ (k - 1) \notin Assess(wk[r].gdf)
                                       \/ (k + 1) \notin Assess(wk[r].gdf)
                                 /\ \/ IsNaN(wk[r].gdf[k - 1].elev_deck)
                                    \/ NotBelow(wk[r].gdf[k].elev_deck,
                                                wk[r].gdf[k - 1].elev_deck)
                                    \/ NotBelow(wk[r].gdf[k].elev_deck,
                                                wk[r].gdf[k + 1].elev_deck)
                    /\ \A k \in 1..Len(wk[r].gdf) :
                          (k \notin Assess(wk[r].gdf) \/ ~IsNaN(marked[k])) =>
                              marked[k] = wk[r].gdf[k].elev_deck
                    /\ DeckColumn(wk'[r].gdf) = Interpolate(marked)
      ]_vars

\* C24 witness: a gap of three stations between two deck readings has been
\* repaired; the station in the middle, whose neighbours are gap stations
\* with its own elevation, was replaced as well.
C24_Witness ==
    \E r \in RowIds :
        /\ Repaired(r)
        /\ \E k \in 2..(Len(wk[r].gdf) - 3) :
               /\ OffGround(r, k - 1) /\ OffGround(r, k + 3)
               /\ AtGround(r, k) /\ AtGround(r, k + 1) /\ AtGround(r, k + 2)
               /\ PreDeck(r, k) = PreDeck(r, k + 1)
               /\ PreDeck(r, k + 1) = PreDeck(r, k + 2)
               /\ PostDeck(r, k + 1) # PreDeck(r, k + 1)

\* fn_fix_ground_spikes was left by an error for row r: the worker ended
\* with its profile sampled over every edge and not repaired.
RepairRaised(r) ==
    /\ pc[r] = "RAISED"
    /\ wk[r].shp_mjr_axis_ln # <<>>
    /\ wk[r].i > NEdges(r)

\* C25: fn_fix_ground_spikes returns for every stationed profile, also for
\* one whose deck elevation equals the ground elevation at every station.
C25_RepairNeverRaises == \A r \in RowIds : ~RepairRaised(r)

\* C26: the final line is built on the side whose best offset is the larger
\* one, at that offset; when the two best offsets are equal (both zero
\* included) it is built on the right side.
C26_LargerSideRightOnTie ==
    \A r \in RowIds :
        CenteringReturned(r) =>
            /\ wk[r].best_right >= wk[r].best_left =>
                   /\ wk[r].str_side = "right"
                   /\ wk[r].shp_line_offset =
                          parallel_offset(rows[r].geometry, wk[r].best_right, "right")
            /\ wk[r].best_left > wk[r].best_right =>
                   /\ wk[r].str_side = "left"
                   /\ wk[r].shp_line_offset =
                          parallel_offset(rows[r].geometry, wk[r].best_left, "left")

\* C26 witness: both sides found the same best offset, which is not zero, and
\* the line was built on the right side.
C26_Witness ==
    \E r \in RowIds :
        /\ CenteringReturned(r)
        /\ wk[r].best_left = wk[r].best_right
        /\ wk[r].best_left > 0
        /\ wk[r].str_side = "right"
        /\ wk[r].shp_line_offset # rows[r].geometry

\* Station k of profile gdf lies before the first or after the last station
\* whose deck differs from the ground.
OutsideDeck(gdf, k) == k < SetMin(IndVals(gdf)) \/ k > SetMax(IndVals(gdf))

\* C27: fn_fix_ground_spikes changes deck elevations only.  The rows keep
\* their number, order, position, station and ground elevation, and a deck
\* elevation that is not missing stays as it is at every station where deck
\* and ground differ and at every station before the first or after the last
\* such station.
C27_RepairChangesDeckOnly ==
    [][ \A r \in RowIds :
            RepairStep(r) =>
                /\ Len(wk'[r].gdf) = Len(wk[r].gdf)
                /\ \A k \in 1..Len(wk[r].gdf) :
                      /\ wk'[r].gdf[k] =
                             [wk[r].gdf[k] EXCEPT !.elev_deck = wk'[r].gdf[k].elev_deck]
                      /\ ( /\ ~IsNaN(wk[r].gdf[k].elev_deck)
                           /\ k \in IndVals(wk[r].gdf) \/ OutsideDeck(wk[r].gdf, k) )
                             => wk'[r].gdf[k].elev_deck = wk[r].gdf[k].elev_deck
      ]_vars

\* C27 witness: a repair replaced the deck elevation of a gap station in a
\* profile whose last station lies after the last one where deck and ground
\* differ.
C27_Witness ==
    \E r \in RowIds :
        /\ Repaired(r)
        /\ Len(wk[r].gdf) > 0
        /\ AtGround(r, Len(wk[r].gdf))
        /\ \E k \in 1..Len(wk[r].gdf) :
               ~IsNaN(PreDeck(r, k)) /\ PostDeck(r, k) # PreDeck(r, k)

\* The input rows whose worker returned a record, in input order.
RECURSIVE SurvivorsFrom(_)
SurvivorsFrom(r) ==
    IF r > Len(rows)
    THEN <<>>
    ELSE (IF results[r] = "record" THEN << r >> ELSE <<>>) \o SurvivorsFrom(r + 1)

\* C28: the merged result lists the surviving rows in the order of the input
\* rows, in whatever order the workers finished: while the results are taken
\* the records taken so far are in input order, and the merged list is
\* exactly the rows whose worker returned a record, in input order.
C28_MergedInInputOrder ==
    /\ \A i, j \in 1..Len(list_gdfs) :
          (i < j /\ list_gdfs[i] # 0 /\ list_gdfs[j] # 0) => list_gdfs[i] < list_gdfs[j]
    /\ opc \in {"MERGED", "DONE"} => list_gdfs = SurvivorsFrom(1)

\* C28 witness: the merged list holds the records of two rows.
C28_Witness ==
    /\ opc = "MERGED"
    /\ Len(list_gdfs) >= 2
    /\ \E r, q \in RowIds : r < q /\ results[r] = "record" /\ results[q] = "record"

\* The order C29 names: the profile geopackage, feature-id assignment, NBI
\* conflation, low-chord attributes, hull geometry, HAND rating curves,
\* cross-section plots, KML.
ClaimedDownstream ==
    << "to_file", "fn_assign_feature_id_to_mjr_axis", "fn_conflate_nbi",
       "fn_compute_low_chord_attributes", "fn_add_hull_geometry",
       "fn_fetch_hand_rating_curves", "fn_plot_cross_sections", "fn_generate_kml" >>

\* C29: the geopackage is written and the sub-processes run only after every
\* worker has finished and the pool is closed and joined, only if some worker
\* returned a record, each at most once and in the fixed order; when every
\* worker returned None nothing is written and no sub-process runs.
C29_DownstreamAfterPoolInOrder ==
    /\ Len(calls) <= Len(ClaimedDownstream)
    /\ calls = SubSeq(ClaimedDownstream, 1, Len(calls))
    /\ calls # <<>> =>
          /\ \A r \in RowIds : pc[r] \in Returned
          /\ collected = Len(rows)
          /\ opc \in {"MERGED", "DONE"}
          /\ \E r \in RowIds : results[r] = "record"
    /\ (opc = "DONE" /\ \A r \in RowIds : results[r] = "None") => calls = <<>>

\* C29 witness: the run is over, one worker returned None, another a record,
\* and the geopackage and every sub-process have run.
C29_Witness ==
    /\ opc = "DONE"
    /\ calls = ClaimedDownstream
    /\ \E r, q \in RowIds : results[r] = "None" /\ results[q] = "record"

-----------------------------------------------------------------------------
(* C30                                                                      *)

\* fn_fetch_hand_rating_curves has been called (line 950).
HandCallMade == \E k \in DOMAIN calls : calls[k] = "fn_fetch_hand_rating_curves"

\* One of the four required input files is not there.
SomeFileMissing == RequiredFiles \ disk # {}

\* What is left of the claim without "ends without raising": each missing
\* file is reported, in list order, and no output is written.
HandReportsAndWritesNothing ==
    (HandCallMade /\ SomeFileMissing) =>
        /\ printed = NotFound(disk)
        /\ disk \cap RatingOutputs = {}

\* C30: when a required input file of fn_fetch_hand_rating_curves (the
\* major-axis geopackage, the AOI shapefile, the HAND stream lines or the
\* hydro table) is missing, the function reports each missing file and ends
\* without raising and without writing any output.
C30_MissingInputEndsQuietly ==
    (HandCallMade /\ SomeFileMissing) =>
        /\ printed = NotFound(disk)
        /\ opc # "RAISED"
        /\ disk \cap RatingOutputs = {}

=============================================================================
